---- MODULE Spec2Model ----
(***************************************************************************)
(* Model of provider.ts: the three provider adapters (helloGemini,         *)
(* helloGroq, helloOpenAI) and the selector selectAndHello.                *)
(*                                                                         *)
(* One behaviour is one invocation of selectAndHello.  The process         *)
(* environment is chosen in Init and never written.  fetch is the external *)
(* HTTP capability: a call is issued, stays pending, and is settled by the *)
(* environment with a response (status and body) or a transport error.     *)
(* JavaScript runs each continuation to its next await, so an action is    *)
(* the code between two awaits of fetch.  A response carries its body:     *)
(* response.text() gives it as received, and response.json() fails only    *)
(* when the body is not JSON.                                              *)
(*                                                                         *)
(* JavaScript values are tagged records; strings are sequences of          *)
(* one-character strings so that toLowerCase and trim are computed.        *)
(***************************************************************************)
EXTENDS Naturals, Sequences, FiniteSets

VARIABLES
  env,      \* process.env: PROVIDER and the three credentials
  pc,       \* "start", "await" (suspended on a fetch), "done"
  forced,   \* the local const forced of selectAndHello
  idx,      \* place in AutoOrder of the suspended adapter, 0 on the forced path
  inflight, \* the fetch requests issued and not yet settled
  settled,  \* how the awaited fetch settled, once it has
  answered, \* the request that the settled fetch was
  outcome,  \* how the promise of selectAndHello settled, once it has
  invoked,  \* history: the adapters called, in order
  issued,   \* history: the fetch requests issued, in order
  failed    \* history: the adapters whose call threw, in order

vars == <<env, pc, forced, idx, inflight, settled, answered, outcome, invoked, issued, failed>>

(***************************************************************************)
(* Bounds of the model                                                     *)
(***************************************************************************)
\* longest run of whitespace put before and after a text in a response
MaxPad == 1

(***************************************************************************)
(* JavaScript values                                                       *)
(***************************************************************************)
Undefined == [t |-> "undefined"]
Null == [t |-> "null"]
Str(s) == [t |-> "string", s |-> s]
Num(n) == [t |-> "number", n |-> n]
Bool(b) == [t |-> "boolean", b |-> b]
Arr(e) == [t |-> "array", e |-> e]

\* property names of the vendor response types
Keys == {"candidates", "content", "parts", "text", "choices", "message"}
EmptyObj == [t |-> "object", p |-> [k \in Keys |-> Undefined]]
Obj(key, val) == [t |-> "object", p |-> [k \in Keys |-> IF k = key THEN val ELSE Undefined]]

Nullish(v) == v.t \in {"undefined", "null"}

\* v.key on a value that is not null or undefined
Get(v, key) == IF v.t = "object" THEN v.p[key] ELSE Undefined

\* v[0] on a value that is not null or undefined
Index0(v) ==
  CASE v.t = "array" -> IF Len(v.e) >= 1 THEN v.e[1] ELSE Undefined
    [] v.t = "string" -> IF Len(v.s) >= 1 THEN Str(<<v.s[1]>>) ELSE Undefined
    [] OTHER -> Undefined

\* v?.key
OptGet(v, key) == IF Nullish(v) THEN Undefined ELSE Get(v, key)

\* v?.[0]
OptIndex0(v) == IF Nullish(v) THEN Undefined ELSE Index0(v)

\* a ?? b
Coalesce(a, b) == IF Nullish(a) THEN b ELSE a

\* mutant of Falsy: only an unset entry counts, the empty string passes
FalsyOnlyUnset(v) == v.t = "undefined"

\* !v for the values an environment entry can have (a string or undefined)
Falsy(v) == v.t = "undefined" \/ (v.t = "string" /\ v.s = <<>>)

UpperCase == <<"A", "B", "C", "D", "E", "F", "G", "H", "I", "J", "K", "L", "M",
               "N", "O", "P", "Q", "R", "S", "T", "U", "V", "W", "X", "Y", "Z">>
LowerCase == <<"a", "b", "c", "d", "e", "f", "g", "h", "i", "j", "k", "l", "m",
               "n", "o", "p", "q", "r", "s", "t", "u", "v", "w", "x", "y", "z">>

LowerChar(c) ==
  IF \E i \in 1..Len(UpperCase) : UpperCase[i] = c
  THEN LowerCase[CHOOSE i \in 1..Len(UpperCase) : UpperCase[i] = c]
  ELSE c

\* String.prototype.toLowerCase
toLowerCase(s) == [i \in 1..Len(s) |-> LowerChar(s[i])]

WhiteSpace == {" ", "\t", "\n", "\r"}

RECURSIVE trimStart(_)
trimStart(s) ==
  IF s # <<>> /\ Head(s) \in WhiteSpace THEN trimStart(Tail(s)) ELSE s

RECURSIVE trimEnd(_)
trimEnd(s) ==
  IF s # <<>> /\ s[Len(s)] \in WhiteSpace
  THEN trimEnd(SubSeq(s, 1, Len(s) - 1))
  ELSE s

\* String.prototype.trim
trim(s) == trimEnd(trimStart(s))

Digits == <<"0", "1", "2", "3", "4", "5", "6", "7", "8", "9">>

RECURSIVE NatToString(_)
NatToString(n) ==
  IF n < 10 THEN <<Digits[n + 1]>>
  ELSE NatToString(n \div 10) \o <<Digits[(n % 10) + 1]>>

RECURSIVE JoinElements(_)
RECURSIVE StringOf(_)
\* String(v), the characters of the result
StringOf(v) ==
  CASE v.t = "string" -> v.s
    [] v.t = "number" -> NatToString(v.n)
    [] v.t = "boolean" -> IF v.b THEN <<"t", "r", "u", "e">> ELSE <<"f", "a", "l", "s", "e">>
    [] v.t = "null" -> <<"n", "u", "l", "l">>
    [] v.t = "undefined" -> <<"u", "n", "d", "e", "f", "i", "n", "e", "d">>
    [] v.t = "array" -> JoinElements(v.e)
    [] OTHER -> <<"[", "o", "b", "j", "e", "c", "t", " ", "O", "b", "j", "e", "c", "t", "]">>

\* Array.prototype.join(","), as String(array) uses it
JoinElements(e) ==
  IF e = <<>> THEN <<>>
  ELSE LET first == IF Nullish(e[1]) THEN <<>> ELSE StringOf(e[1])
       IN IF Len(e) = 1 THEN first ELSE first \o <<",">> \o JoinElements(Tail(e))

(***************************************************************************)
(* Completions of a call, errors, the HTTP capability                      *)
(***************************************************************************)
Return(v) == [kind |-> "return", value |-> v]
Throw(e) == [kind |-> "throw", error |-> e]
\* suspended on the fetch of request
Await(request) == [kind |-> "await", request |-> request]

\* new Error(`Missing ${key} in env`)
MissingCredential(key) == [name |-> "MissingCredential", key |-> key]
\* new Error(`${label} ${status} : ${body}`)
HttpError(label, status, body) ==
  [name |-> "HttpError", label |-> label, status |-> status, body |-> body]
\* new Error(`Unsupported provider ${directive}`)
UnsupportedProvider(directive) == [name |-> "UnsupportedProvider", directive |-> directive]
\* new Error("Missing OPENAI_API_KEY, GOOGLE_API_KEY or GROQ_API_KEY in env")
NoProviderAvailable ==
  [name |-> "NoProviderAvailable",
   expected |-> {"OPENAI_API_KEY", "GOOGLE_API_KEY", "GROQ_API_KEY"}]
\* what fetch rejects with
TransportError == [name |-> "TransportError"]
\* what response.json() rejects with on a body that is not JSON
SyntaxError == [name |-> "SyntaxError"]
\* reading a property of null
TypeError == [name |-> "TypeError"]

\* a body that is not JSON text
NotJson == [t |-> "notjson"]

\* Response.ok
ResponseOk(response) == response.status >= 200 /\ response.status <= 299

\* await response.text(): the body as received
ResponseText(response) == response.body

\* await response.json(): the parsed body, or a SyntaxError
ResponseJson(response) ==
  IF response.body.t = "notjson" THEN Throw(SyntaxError) ELSE Return(response.body)

\* fetch(url, {method: "POST", headers, body}) of an adapter, with the key it sends
Fetch(provider, apiKey) == [to |-> provider, apiKey |-> apiKey]

(***************************************************************************)
(* The adapters.  Each is its code up to the await of fetch (Start) and    *)
(* its code after it (Resume), given how the fetch settled.                *)
(***************************************************************************)
Hello == Str(<<"H", "e", "l", "l", "o", "!">>)

HelloOutput(provider, model, message) ==
  [ok |-> TRUE, provider |-> provider, model |-> model, message |-> message]

\* json.candidates?.[0]?.content?.parts?.[0]?.text
GeminiText(json) ==
  OptGet(OptIndex0(OptGet(OptGet(OptIndex0(Get(json, "candidates")), "content"), "parts")), "text")

\* json.choices?.[0]?.message?.content
ChatContent(json) ==
  OptGet(OptGet(OptIndex0(Get(json, "choices")), "message"), "content")

\* mutant of Message: the trim is missing
MessageUntrimmed(text) == StringOf(text)

\* String(text).trim()
Message(text) == trim(StringOf(text))

helloGeminiStart(e) ==
  IF Falsy(e.GOOGLE_API_KEY)
  THEN Throw(MissingCredential("GOOGLE_API_KEY"))
  ELSE Await(Fetch("gemini", e.GOOGLE_API_KEY))

helloGeminiResume(r) ==
  IF r.state = "rejected" THEN Throw(r.error)
  ELSE IF ~ResponseOk(r.response)
  THEN Throw(HttpError("Gemini", r.response.status, ResponseText(r.response)))
  ELSE LET parsed == ResponseJson(r.response)
       IN IF parsed.kind = "throw" THEN parsed
          ELSE IF Nullish(parsed.value) THEN Throw(TypeError)
          ELSE Return(HelloOutput("gemini", "gemini-2.0-flash-lite",
                        Message(Coalesce(GeminiText(parsed.value), Hello))))

helloGroqStart(e) ==
  IF Falsy(e.GROQ_API_KEY)
  THEN Throw(MissingCredential("GROQ_API_KEY"))
  ELSE Await(Fetch("groq", e.GROQ_API_KEY))

helloGroqResume(r) ==
  IF r.state = "rejected" THEN Throw(r.error)
  ELSE IF ~ResponseOk(r.response)
  THEN Throw(HttpError("Groq", r.response.status, ResponseText(r.response)))
  ELSE LET parsed == ResponseJson(r.response)
       IN IF parsed.kind = "throw" THEN parsed
          ELSE IF Nullish(parsed.value) THEN Throw(TypeError)
          ELSE Return(HelloOutput("groq", "llama-3.1-8b-instant",
                        Message(Coalesce(ChatContent(parsed.value), Hello))))

helloOpenAIStart(e) ==
  IF Falsy(e.OPENAI_API_KEY)
  THEN Throw(MissingCredential("OPENAI_API_KEY"))
  ELSE Await(Fetch("openai", e.OPENAI_API_KEY))

\* mutant of helloOpenAIResume: the provider of the adapter it was copied from
helloOpenAIResumeSaysGroq(r) ==
  IF r.state = "rejected" THEN Throw(r.error)
  ELSE IF ~ResponseOk(r.response)
  THEN Throw(HttpError("Groq", r.response.status, ResponseText(r.response)))
  ELSE LET parsed == ResponseJson(r.response)
       IN IF parsed.kind = "throw" THEN parsed
          ELSE IF Nullish(parsed.value) THEN Throw(TypeError)
          ELSE Return(HelloOutput("groq", "llama-3.1-8b-instant",
                        Message(Coalesce(ChatContent(parsed.value), Hello))))

\* mutant of helloOpenAIResume: the test of response.ok is missing
helloOpenAIResumeIgnoresStatus(r) ==
  IF r.state = "rejected" THEN Throw(r.error)
  ELSE LET parsed == ResponseJson(r.response)
       IN IF parsed.kind = "throw" THEN parsed
          ELSE IF Nullish(parsed.value) THEN Throw(TypeError)
          ELSE Return(HelloOutput("openai", "llama-3.1-8b-instant",
                        Message(Coalesce(ChatContent(parsed.value), Hello))))

helloOpenAIResume(r) ==
  IF r.state = "rejected" THEN Throw(r.error)
  ELSE IF ~ResponseOk(r.response)
  THEN Throw(HttpError("Groq", r.response.status, ResponseText(r.response)))
  ELSE LET parsed == ResponseJson(r.response)
       IN IF parsed.kind = "throw" THEN parsed
          ELSE IF Nullish(parsed.value) THEN Throw(TypeError)
          ELSE Return(HelloOutput("openai", "llama-3.1-8b-instant",
                        Message(Coalesce(ChatContent(parsed.value), Hello))))

(***************************************************************************)
(* The selector                                                            *)
(***************************************************************************)
Providers == {"openai", "gemini", "groq"}

\* the characters of a provider id, as the directive is compared with it
ProviderName(p) ==
  CASE p = "gemini" -> <<"g", "e", "m", "i", "n", "i">>
    [] p = "groq" -> <<"g", "r", "o", "q">>
    [] p = "openai" -> <<"o", "p", "e", "n", "a", "i">>

\* mutant of AutoOrder: the order of the declared Provider type
AutoOrderAsDeclared == <<"openai", "gemini", "groq">>

\* the order in which selectAndHello tries the providers without a directive
AutoOrder == <<"gemini", "openai", "groq">>

\* the environment entry selectAndHello tests before it tries a provider
Credential(e, p) ==
  CASE p = "gemini" -> e.GOOGLE_API_KEY
    [] p = "openai" -> e.OPENAI_API_KEY
    [] p = "groq" -> e.GROQ_API_KEY

\* the call of a provider's adapter, up to its await
Start(p, e) ==
  CASE p = "gemini" -> helloGeminiStart(e)
    [] p = "groq" -> helloGroqStart(e)
    [] p = "openai" -> helloOpenAIStart(e)

\* the rest of a provider's adapter, once its fetch has settled as s
ResumeAdapter(p, s) ==
  CASE p = "gemini" -> helloGeminiResume(s)
    [] p = "groq" -> helloGroqResume(s)
    [] p = "openai" -> helloOpenAIResume(s)

\* (process.env.PROVIDER || "").toLowerCase()
Directive(e) == toLowerCase(IF Falsy(e.PROVIDER) THEN <<>> ELSE e.PROVIDER.s)

\* a step of selectAndHello: where it stops (an await of an adapter's fetch, a
\* return or a throw) and the adapters it called and saw fail on the way
Stop(completion, i, called, threw) ==
  [completion |-> completion, idx |-> i, invoked |-> called, failed |-> threw]

\* step rest, with the adapters called and seen to fail before it
After(called, threw, rest) ==
  [rest EXCEPT !.invoked = called \o @, !.failed = threw \o @]

\* the history entry of a failed adapter call: who, which error, which status
Failure(p, c) ==
  [provider |-> p, error |-> c.error.name,
   status |-> IF c.error.name = "HttpError" THEN c.error.status ELSE 0]

\* mutant of Exhausted: the final throw is missing, the function returns undefined
ExhaustedReturnsUndefined == Return(Undefined)

\* the throw that ends selectAndHello when no candidate is left
Exhausted == Throw(NoProviderAvailable)

\* mutant of NextCandidate: a failed candidate is tried again
NextCandidateRetries(i) == i

\* the candidate tried after candidate i
NextCandidate(i) == i + 1

RECURSIVE AutoFrom(_, _)
\* the auto-selection from candidate i on: skip a provider without credential,
\* call the adapter of one that has it inside try/catch, throw at the end
AutoFrom(i, e) ==
  IF i > Len(AutoOrder) THEN Stop(Exhausted, 0, <<>>, <<>>)
  ELSE LET p == AutoOrder[i]
       IN IF Falsy(Credential(e, p)) THEN AutoFrom(i + 1, e)
          ELSE LET c == Start(p, e)
               IN IF c.kind # "throw" THEN Stop(c, i, <<p>>, <<>>)
                  ELSE After(<<p>>, <<Failure(p, c)>>, AutoFrom(NextCandidate(i), e))

\* mutant of ForcedCall: a forced provider that fails at once falls back to
\* the auto-selection
ForcedCallFallsBack(p, e) ==
  LET c == Start(p, e)
  IN IF c.kind = "throw"
     THEN After(<<p>>, <<Failure(p, c)>>, AutoFrom(1, e))
     ELSE Stop(c, 0, <<p>>, <<>>)

\* return helloX() of the forced path: the adapter's promise is the result
ForcedCall(p, e) ==
  LET c == Start(p, e)
  IN Stop(c, 0, <<p>>, IF c.kind = "throw" THEN <<Failure(p, c)>> ELSE <<>>)

\* mutant of selectAndHelloStart: an unknown directive is ignored
selectAndHelloStartIgnoresUnknown(e) ==
  LET f == Directive(e)
  IN IF f = ProviderName("gemini") THEN ForcedCall("gemini", e)
     ELSE IF f = ProviderName("groq") THEN ForcedCall("groq", e)
     ELSE IF f = ProviderName("openai") THEN ForcedCall("openai", e)
     ELSE AutoFrom(1, e)

\* selectAndHello from its call to its first await
selectAndHelloStart(e) ==
  LET f == Directive(e)
  IN IF f = ProviderName("gemini") THEN ForcedCall("gemini", e)
     ELSE IF f = ProviderName("groq") THEN ForcedCall("groq", e)
     ELSE IF f = ProviderName("openai") THEN ForcedCall("openai", e)
     ELSE IF f # <<>> THEN Stop(Throw(UnsupportedProvider(f)), 0, <<>>, <<>>)
     ELSE AutoFrom(1, e)

(***************************************************************************)
(* The inputs: environments, and what the HTTP capability can answer       *)
(***************************************************************************)
\* a credential: unset, set to the empty string, set to a key
CredentialValues == {Undefined, Str(<<>>), Str(<<"k">>)}

\* PROVIDER: unset, empty, the provider ids in several casings, unknown names
DirectiveValues ==
  {Undefined, Str(<<>>),
   Str(<<"g", "e", "m", "i", "n", "i">>), Str(<<"G", "e", "M", "i", "N", "i">>),
   Str(<<"G", "R", "O", "Q">>), Str(<<"O", "p", "e", "n", "A", "I">>),
   Str(<<"a", "w", "s">>), Str(<<"A", "W", "S">>),
   Str(<<"g", "e", "m", "i", "n", "i", " ">>)}

Environments ==
  [PROVIDER : DirectiveValues, GOOGLE_API_KEY : CredentialValues,
   OPENAI_API_KEY : CredentialValues, GROQ_API_KEY : CredentialValues]

\* runs of whitespace of at most MaxPad characters
RECURSIVE PadsOfLength(_)
PadsOfLength(n) ==
  IF n = 0 THEN {<<>>}
  ELSE {<<c>> \o q : c \in {" ", "\n"}, q \in PadsOfLength(n - 1)}
Pads == UNION {PadsOfLength(n) : n \in 0..MaxPad}

\* texts: empty, a word, two words; each with whitespace around it
Texts ==
  {l \o c \o r : l \in Pads, r \in Pads,
                 c \in {<<>>, <<"H", "i">>, <<"a", " ", "b">>}}

\* what a vendor can put where the text is expected
Leaves ==
  {Str(t) : t \in Texts} \cup
  {Null, Num(0), Num(42), Bool(FALSE), Arr(<<>>), Arr(<<Null, Num(7)>>), EmptyObj}

\* vendor A bodies: the whole path to a leaf, and the path cut at each level
GeminiBodies ==
  {Obj("candidates", Arr(<<Obj("content", Obj("parts", Arr(<<Obj("text", x)>>)))>>)) :
     x \in Leaves} \cup
  {Obj("candidates", Arr(<<Obj("content", Obj("parts", Arr(<<EmptyObj>>)))>>)),
   Obj("candidates", Arr(<<Obj("content", Obj("parts", Arr(<<>>)))>>)),
   Obj("candidates", Arr(<<Obj("content", Obj("parts", Null))>>)),
   Obj("candidates", Arr(<<Obj("content", EmptyObj)>>)),
   Obj("candidates", Arr(<<Obj("content", Null)>>)),
   Obj("candidates", Arr(<<EmptyObj>>)),
   Obj("candidates", Arr(<<Null>>)),
   Obj("candidates", Arr(<<>>)),
   Obj("candidates", Null),
   Obj("candidates", Str(<<"x">>))}

\* vendor B and C bodies, likewise
ChatBodies ==
  {Obj("choices", Arr(<<Obj("message", Obj("content", x))>>)) : x \in Leaves} \cup
  {Obj("choices", Arr(<<Obj("message", EmptyObj)>>)),
   Obj("choices", Arr(<<Obj("message", Null)>>)),
   Obj("choices", Arr(<<EmptyObj>>)),
   Obj("choices", Arr(<<Null>>)),
   Obj("choices", Arr(<<>>)),
   Obj("choices", Null),
   Obj("choices", Str(<<"x">>))}

\* bodies: of either vendor shape, JSON of no vendor shape, not JSON at all
Bodies ==
  GeminiBodies \cup ChatBodies \cup
  {EmptyObj, Null, Num(1), Str(<<"o", "k">>), Arr(<<>>), NotJson}

\* bodies sent with a status that is not a success
ErrorBodies ==
  {NotJson, EmptyObj,
   Obj("candidates", Arr(<<Obj("content", Obj("parts", Arr(<<Obj("text", Str(<<"H", "i">>))>>)))>>))}

\* status codes on both sides of the 200..299 range of Response.ok
SuccessStatuses == {200, 299}
FailureStatuses == {300, 404, 500}

Responses ==
  [status : SuccessStatuses, body : Bodies] \cup
  [status : FailureStatuses, body : ErrorBodies]

\* how a fetch can settle: rejected at transport level, or fulfilled
Settlements ==
  {[state |-> "rejected", error |-> TransportError]} \cup
  {[state |-> "fulfilled", response |-> r] : r \in Responses}

\* the adapters' continuations for every way a fetch can settle, as a function
\* of the provider and the settlement
Resumed == [p \in Providers |-> [s \in Settlements |-> ResumeAdapter(p, s)]]

\* the rest of a provider's adapter, once its fetch has settled as s
Resume(p, s) == Resumed[p][s]

(***************************************************************************)
(* The selector, from the settling of a fetch on                           *)
(***************************************************************************)
\* the provider whose adapter the forced path called for directive f
ForcedProvider(f) == CHOOSE p \in Providers : ProviderName(p) = f

\* mutant of Catch: the error is thrown on instead of dropped
CatchRethrows(c, i, e) == Stop(c, 0, <<>>, <<Failure(AutoOrder[i], c)>>)

\* catch (error) {} around candidate i: the error c is dropped and the
\* selection goes on with the next candidate
Catch(c, i, e) ==
  After(<<>>, <<Failure(AutoOrder[i], c)>>, AutoFrom(NextCandidate(i), e))

\* selectAndHello from the settling of the awaited fetch to its next await
selectAndHelloResume(e, f, i, s) ==
  IF i = 0
  THEN LET c == Resume(ForcedProvider(f), s)
       IN Stop(c, 0, <<>>,
               IF c.kind = "throw" THEN <<Failure(ForcedProvider(f), c)>> ELSE <<>>)
  ELSE LET c == Resume(AutoOrder[i], s)
       IN IF c.kind = "return" THEN Stop(c, i, <<>>, <<>>)
          ELSE Catch(c, i, e)

(***************************************************************************)
(* The state machine                                                       *)
(***************************************************************************)
NotSettled == [state |-> "none"]
NoRequest == [to |-> "none", apiKey |-> Undefined]
Pending == [kind |-> "pending"]

Init ==
  /\ env \in Environments
  /\ pc = "start"
  /\ forced = <<>>
  /\ idx = 0
  /\ inflight = {}
  /\ settled = NotSettled
  /\ answered = NoRequest
  /\ outcome = Pending
  /\ invoked = <<>>
  /\ issued = <<>>
  /\ failed = <<>>

\* selectAndHello runs on to where step r stops: it suspends on the fetch the
\* adapter issued, or its promise settles
Advance(r) ==
  /\ invoked' = invoked \o r.invoked
  /\ failed' = failed \o r.failed
  /\ idx' = r.idx
  /\ IF r.completion.kind = "await"
     THEN /\ pc' = "await"
          /\ inflight' = inflight \cup {r.completion.request}
          /\ issued' = Append(issued, r.completion.request)
          /\ settled' = NotSettled
          /\ answered' = NoRequest
          /\ outcome' = outcome
     ELSE /\ pc' = "done"
          /\ outcome' = r.completion
          /\ UNCHANGED <<inflight, issued, settled, answered>>

\* the caller calls selectAndHello()
Call ==
  /\ pc = "start"
  /\ forced' = Directive(env)
  /\ \E r \in {selectAndHelloStart(env)} : Advance(r)
  /\ UNCHANGED env

\* the HTTP capability answers a request in flight with a response
Fulfil ==
  /\ pc = "await"
  /\ settled = NotSettled
  /\ \E request \in inflight, response \in Responses :
       /\ inflight' = inflight \ {request}
       /\ settled' = [state |-> "fulfilled", response |-> response]
       /\ answered' = request
  /\ UNCHANGED <<env, pc, forced, idx, outcome, invoked, issued, failed>>

\* the HTTP capability fails a request in flight at transport level
Reject ==
  /\ pc = "await"
  /\ settled = NotSettled
  /\ \E request \in inflight :
       /\ inflight' = inflight \ {request}
       /\ settled' = [state |-> "rejected", error |-> TransportError]
       /\ answered' = request
  /\ UNCHANGED <<env, pc, forced, idx, outcome, invoked, issued, failed>>

\* the suspended adapter and selectAndHello run on after the fetch settled
Continue ==
  /\ pc = "await"
  /\ settled # NotSettled
  /\ \E r \in {selectAndHelloResume(env, forced, idx, settled)} : Advance(r)
  /\ UNCHANGED <<env, forced>>

Next == Call \/ Fulfil \/ Reject \/ Continue

Spec == Init /\ [][Next]_vars

\* every fetch settles, and a continuation that can run does run
FairSpec == Spec /\ WF_vars(Fulfil \/ Reject) /\ WF_vars(Call) /\ WF_vars(Continue)

(***************************************************************************)
(* Vocabulary of the properties, stated on the environment and the         *)
(* histories rather than through the selector's own operators              *)
(***************************************************************************)
KeyName(p) ==
  CASE p = "gemini" -> "GOOGLE_API_KEY"
    [] p = "openai" -> "OPENAI_API_KEY"
    [] p = "groq" -> "GROQ_API_KEY"

\* the provider's credential is present: set, and not the empty string
CredentialSet(p) == env[KeyName(p)] \notin {Undefined, Str(<<>>)}

\* no directive: PROVIDER unset or empty
NoDirective == env.PROVIDER \in {Undefined, Str(<<>>)}

\* the lower-cased directive is the id of provider p
ForcedTo(p) == ~NoDirective /\ toLowerCase(env.PROVIDER.s) = ProviderName(p)

\* a directive that names no provider
UnknownDirective == ~NoDirective /\ \A p \in Providers : ~ForcedTo(p)

Done == pc = "done"
Returned == Done /\ outcome.kind = "return"
Thrown == Done /\ outcome.kind = "throw"

\* the awaited fetch came back with a status outside 200..299
SettledNonSuccess ==
  /\ settled.state = "fulfilled"
  /\ (settled.response.status < 200 \/ settled.response.status > 299)

\* the awaited fetch came back with a status in 200..299
SettledSuccess ==
  /\ settled.state = "fulfilled"
  /\ settled.response.status >= 200
  /\ settled.response.status <= 299

\* the priority order the auto-selection is said to follow
PriorityOrder == <<"gemini", "openai", "groq">>

\* the providers with a credential, in priority order
Candidates == SelectSeq(PriorityOrder, CredentialSet)

FailedProviders == {failed[i].provider : i \in 1..Len(failed)}

(***************************************************************************)
(* Properties                                                              *)
(***************************************************************************)

\* C1: on the forced path (the lower-cased PROVIDER is a provider id) only that
\* provider's adapter is called and only it is sent a request; the outcome of
\* selectAndHello is the adapter's outcome unchanged: MissingCredential without
\* any request when its credential is absent, the transport error when the
\* fetch is rejected, an HttpError on a non-success status, and never another
\* provider's result nor an error of the selector.
C1_ForcedPathExclusive ==
  \A p \in Providers :
    (ForcedTo(p) /\ pc # "start") =>
      /\ invoked = <<p>>
      /\ Len(issued) <= 1
      /\ \A i \in 1..Len(issued) : issued[i].to = p
      /\ \A request \in inflight : request.to = p
      /\ ~CredentialSet(p) =>
           /\ Done
           /\ issued = <<>>
           /\ outcome = Throw(MissingCredential(KeyName(p)))
      /\ (Done /\ issued # <<>>) => outcome = Resume(p, settled)
      /\ Returned => outcome.value.provider = p
      /\ (Done /\ settled.state = "rejected") => outcome = Throw(TransportError)
      /\ (Done /\ SettledNonSuccess) =>
           outcome.kind = "throw" /\ outcome.error.name = "HttpError"
      /\ Thrown =>
           outcome.error.name \notin {"NoProviderAvailable", "UnsupportedProvider"}

\* C1 witness: groq is forced without its credential while both other
\* credentials are set, and the call ended in MissingCredential
C1_Witness ==
  /\ ForcedTo("groq")
  /\ ~CredentialSet("groq")
  /\ CredentialSet("gemini")
  /\ CredentialSet("openai")
  /\ Thrown
  /\ outcome.error = MissingCredential("GROQ_API_KEY")

\* C2: a non-empty PROVIDER whose lower-cased form is no provider id makes
\* selectAndHello fail with UnsupportedProvider, whatever the credentials are,
\* without calling an adapter or issuing a request.
C2_UnknownDirectiveFails ==
  (UnknownDirective /\ pc # "start") =>
    /\ Thrown
    /\ outcome.error.name = "UnsupportedProvider"
    /\ outcome.error.directive = toLowerCase(env.PROVIDER.s)
    /\ invoked = <<>>
    /\ issued = <<>>
    /\ inflight = {}

\* C2 witness: PROVIDER is "aws", all three credentials are set, the call failed
C2_Witness ==
  /\ env.PROVIDER = Str(<<"a", "w", "s">>)
  /\ \A p \in Providers : CredentialSet(p)
  /\ Thrown
  /\ outcome.error.name = "UnsupportedProvider"

\* C3: without a directive the adapters called are, in order, the providers
\* that have a credential in the order gemini, openai, groq; each one before the
\* last called has failed; a request goes only to a called provider; and a
\* returned result is the last called provider's, every earlier candidate
\* having failed.
C3_AutoOrderFirstSuccess ==
  (NoDirective /\ pc # "start") =>
    /\ Len(invoked) <= Len(Candidates)
    /\ invoked = SubSeq(Candidates, 1, Len(invoked))
    /\ \A i \in 1..Len(invoked) : CredentialSet(invoked[i])
    /\ Len(failed) <= Len(invoked)
    /\ Len(failed) >= Len(invoked) - 1
    /\ \A i \in 1..Len(failed) : failed[i].provider = invoked[i]
    /\ Len(issued) = Len(invoked)
    /\ \A i \in 1..Len(issued) : issued[i].to = invoked[i]
    /\ Returned =>
         /\ invoked # <<>>
         /\ outcome.value.provider = invoked[Len(invoked)]
         /\ Len(failed) = Len(invoked) - 1
         /\ SettledSuccess
         /\ answered.to = outcome.value.provider
    /\ (pc = "await") => Len(failed) = Len(invoked) - 1

\* C3 witness: both gemini and openai have a credential, gemini failed with an
\* HttpError and the result returned is openai's
C3_Witness ==
  /\ NoDirective
  /\ CredentialSet("gemini")
  /\ CredentialSet("openai")
  /\ failed = <<[provider |-> "gemini", error |-> "HttpError", status |-> 500]>>
  /\ Returned
  /\ outcome.value.provider = "openai"

\* C4: without a directive selectAndHello fails exactly when every provider
\* that has a credential was called and failed (none having one included), and
\* the failure is then NoProviderAvailable, whatever the adapters' errors were.
C4_AutoExhaustion ==
  (NoDirective /\ Done) =>
    /\ outcome.kind \in {"return", "throw"}
    /\ (outcome.kind = "throw") <=>
         (\A p \in Providers : CredentialSet(p) => p \in FailedProviders)
    /\ (outcome.kind = "throw") => outcome = Throw(NoProviderAvailable)

\* C4 witness: all three candidates failed, with a parsing error, an HttpError
\* and a transport error, and the call failed with NoProviderAvailable
C4_Witness ==
  /\ NoDirective
  /\ Len(failed) = 3
  /\ failed[1].error = "SyntaxError"
  /\ failed[2].error = "HttpError"
  /\ failed[3].error = "TransportError"
  /\ Thrown
  /\ outcome.error.name = "NoProviderAvailable"

\* a record of the HelloOutput type
IsHelloOutput(v) ==
  /\ DOMAIN v = {"ok", "provider", "model", "message"}
  /\ v.ok = TRUE
  /\ v.provider \in Providers

\* C5: whatever selectAndHello returns is a HelloOutput whose flag is true and
\* whose provider is the provider the answered request was sent to; a failure
\* is thrown, never returned; on the forced path, in any letter-casing of the
\* directive, a returned record names the forced provider, and with a success
\* status and a JSON body other than null the forced call does return.
C5_SuccessShape ==
  /\ outcome.kind \in {"pending", "return", "throw"}
  /\ Returned =>
       /\ IsHelloOutput(outcome.value)
       /\ SettledSuccess
       /\ outcome.value.provider = answered.to
       /\ outcome.value.provider = invoked[Len(invoked)]
       /\ Len(failed) < Len(invoked)
  /\ \A p \in Providers :
       (ForcedTo(p) /\ Done) =>
         /\ Returned => outcome.value.provider = p
         /\ (SettledSuccess /\ settled.response.body \notin {NotJson, Null}) =>
              Returned /\ outcome.value.ok = TRUE

\* C5 witness: PROVIDER is "OpenAI" in mixed case and the record returned names
\* openai
C5_Witness ==
  /\ env.PROVIDER = Str(<<"O", "p", "e", "n", "A", "I">>)
  /\ Returned
  /\ outcome.value.ok = TRUE
  /\ outcome.value.provider = "openai"

\* C6: at most one request is in flight; none is in flight once the awaited
\* one has settled; no adapter is called twice; a request after the first is
\* issued only when the provider of every earlier request has failed; there
\* are at most three requests, and at most one under a directive.
C6_StrictSequencing ==
  /\ Cardinality(inflight) <= 1
  /\ (settled # NotSettled \/ Done) => inflight = {}
  /\ \A i, j \in 1..Len(invoked) : invoked[i] = invoked[j] => i = j
  /\ \A i, j \in 1..Len(issued) : issued[i].to = issued[j].to => i = j
  /\ Len(invoked) <= 3
  /\ Len(issued) <= 3
  /\ ~NoDirective => Len(issued) <= 1 /\ Len(invoked) <= 1
  /\ Len(issued) <= Len(failed) + 1
  /\ \A i \in 1..(Len(issued) - 1) : failed[i].provider = issued[i].to

\* C6 witness: the third request is in flight, the first two having failed
C6_Witness ==
  /\ Len(issued) = 3
  /\ Cardinality(inflight) = 1
  /\ Len(failed) = 2

\* C7: when every request issued is answered, every call of selectAndHello
\* ends; it ends with one outcome, a HelloOutput returned or an error thrown;
\* there is no outcome before the end; and after the end no adapter is called,
\* no request is issued and the outcome stays as it is.
C7_SingleTerminalOutcome ==
  /\ <>Done
  /\ [](Done =>
          /\ outcome.kind \in {"return", "throw"}
          /\ outcome.kind = "return" => IsHelloOutput(outcome.value)
          /\ inflight = {})
  /\ [](~Done => outcome = Pending)
  /\ [][Done => (Done' /\ outcome' = outcome /\ invoked' = invoked /\ issued' = issued)]_vars

\* C7 witness: a call that ended with a result after three requests
C7_Witness ==
  /\ Returned
  /\ Len(issued) = 3
  /\ Len(failed) = 2

\* C8: a request is issued to a provider only while that provider's credential
\* is present, and carries it; an adapter called without its credential fails
\* with MissingCredential and issues no request.
C8_CredentialPrecondition ==
  /\ \A i \in 1..Len(issued) :
       /\ CredentialSet(issued[i].to)
       /\ issued[i].apiKey = env[KeyName(issued[i].to)]
  /\ \A request \in inflight : CredentialSet(request.to)
  /\ \A i \in 1..Len(invoked) :
       ~CredentialSet(invoked[i]) =>
         /\ \E j \in 1..Len(failed) :
              failed[j] = [provider |-> invoked[i], error |-> "MissingCredential", status |-> 0]
         /\ \A j \in 1..Len(issued) : issued[j].to # invoked[i]

\* C8 witness: gemini is forced with GOOGLE_API_KEY set to the empty string,
\* and the call failed with MissingCredential without a request
C8_Witness ==
  /\ ForcedTo("gemini")
  /\ env.GOOGLE_API_KEY = Str(<<>>)
  /\ Thrown
  /\ outcome.error = MissingCredential("GOOGLE_API_KEY")
  /\ issued = <<>>

\* C9: when the awaited fetch came back with a status outside 200..299, the
\* step that follows is a failure of that adapter with an HttpError of that
\* status, nothing is returned, and on the forced path the error thrown by
\* selectAndHello is that HttpError, with that status and the body received.
C9_NonSuccessStatus ==
  [][(pc = "await" /\ SettledNonSuccess) =>
       /\ failed' = Append(failed, [provider |-> answered.to,
                                    error |-> "HttpError",
                                    status |-> settled.response.status])
       /\ outcome'.kind # "return"
       /\ ~NoDirective =>
            /\ pc' = "done"
            /\ outcome'.kind = "throw"
            /\ outcome'.error.name = "HttpError"
            /\ outcome'.error.status = settled.response.status
            /\ outcome'.error.body = settled.response.body]_vars

\* C9 witness: openai is forced, its request came back 404, and the call
\* failed with the HttpError of status 404
C9_Witness ==
  /\ ForcedTo("openai")
  /\ SettledNonSuccess
  /\ settled.response.status = 404
  /\ Thrown
  /\ outcome.error.name = "HttpError"
  /\ outcome.error.status = 404

\* the path of the text in a vendor's response
FieldPath(p) ==
  IF p = "gemini"
  THEN <<"candidates", "[0]", "content", "parts", "[0]", "text">>
  ELSE <<"choices", "[0]", "message", "content">>

\* what is found in v by one step of a path
Member(v, step) ==
  IF step = "[0]"
  THEN CASE v.t = "array" /\ v.e # <<>> -> v.e[1]
         [] v.t = "string" /\ v.s # <<>> -> Str(<<v.s[1]>>)
         [] OTHER -> Undefined
  ELSE IF v.t = "object" THEN v.p[step] ELSE Undefined

RECURSIVE Lookup(_, _)
\* what is found in v along path; Undefined when a level is absent or null
Lookup(v, path) ==
  IF path = <<>> THEN v
  ELSE LET next == Member(v, Head(path))
       IN IF next \in {Undefined, Null} THEN Undefined ELSE Lookup(next, Tail(path))

\* m is s without its leading and trailing whitespace
IsTrimOf(m, s) ==
  /\ m = <<>> \/ (m[1] \notin WhiteSpace /\ m[Len(m)] \notin WhiteSpace)
  /\ \E i \in 0..Len(s) : \E j \in i..Len(s) :
       /\ m = SubSeq(s, i + 1, j)
       /\ \A k \in 1..i : s[k] \in WhiteSpace
       /\ \A k \in (j + 1)..Len(s) : s[k] \in WhiteSpace

\* the message said to be returned for a body: "Hello!" without the field,
\* else the field's text without the whitespace around it
MessageFor(m, p, body) ==
  LET field == Lookup(body, FieldPath(p))
  IN IF field = Undefined THEN m = <<"H", "e", "l", "l", "o", "!">>
     ELSE IsTrimOf(m, StringOf(field))

====
